---- MODULE Spec2Model ----
(***************************************************************************)
(* Model of scraping.js: a paginated fetch-with-resume pipeline.           *)
(*                                                                         *)
(*   scrape()        loads the state file, derives processedPages from the *)
(*                   `page` property of the loaded documents, walks the    *)
(*                   page range in windows of CONFIG.batchSize pages and    *)
(*                   calls processBatch on each window that is not fully   *)
(*                   processed;                                            *)
(*   processBatch()  fetches the pages startPage..endPage through the      *)
(*                   p-limit limiter, concatenates the results in page     *)
(*                   order and saves the whole collection;                 *)
(*   fetchPage()     one request per attempt, retried CONFIG.retries times *)
(*                   with a delay of 1000 * (retryCount + 1) ms.           *)
(*                                                                         *)
(* The process may stop at any point and be started again on the same      *)
(* state file; `run` counts the processes started so far.                  *)
(***************************************************************************)
EXTENDS Integers, Sequences, FiniteSets

\* ------------------------------------------------------------------ bounds
MaxTotalPages == 3     \* CONFIG.totalPages ranges over 1..MaxTotalPages
MaxBatchSize  == 3     \* CONFIG.batchSize ranges over 1..MaxBatchSize
MaxDocs       == 2     \* documents the remote source holds per page: 0..MaxDocs
MaxRuns       == 2     \* processes started one after the other on the same file

\* ------------------------------------------------------- program constants
Retries       == 3     \* CONFIG.retries
BaseDelay     == 1000  \* the factor of the backoff delay
BatchDelay    == 100   \* CONFIG.delay

\* `doc.page` of a document that has no such property (undefined in the code)
NoPage == 0

VARIABLES
    totalPages,      \* CONFIG.totalPages
    batchSize,       \* CONFIG.batchSize: window size and limiter concurrency
    remote,          \* the remote source: page -> the documents it answers
    file,            \* the state file CONFIG.outputFile
    run,             \* number of the running process (1 = first start)
    pc,              \* where scrape() stands
    allDocs,         \* scrape's allDocs
    processedPages,  \* scrape's processedPages
    page,            \* scrape's loop variable
    fetch,           \* the limit(...) tasks of the current processBatch call
    slept,           \* the delay of the last inter-batch sleep of this run
    exitCode,        \* process exit status, -1 while running
    fetchLog,        \* history: per processBatch call of this run, the window,
                     \* the pages handed to fetchPage and how they ended
    emptied,         \* history: pages whose fetch returned [] in a window that
                     \* an earlier run saved
    prev             \* history: how the previous process ended

vars == <<totalPages, batchSize, remote, file, run, pc, allDocs, processedPages,
          page, fetch, slept, exitCode, fetchLog, emptied, prev>>

config == <<totalPages, batchSize, remote>>

\* ------------------------------------------------------------------ helpers
Min(a, b) == IF a <= b THEN a ELSE b

RECURSIVE Flatten(_, _, _)
\* results of pages lo..hi (a function page -> sequence), concatenated in
\* ascending page order: the loop of lines 118-120 over Promise.all's array
Flatten(res, lo, hi) ==
    IF lo > hi THEN <<>> ELSE res[lo] \o Flatten(res, lo + 1, hi)

\* a document of page p as the remote source returns it: `src` and `idx` stand
\* for its opaque content, `page` for its `page` property (NoPage if absent)
Doc(p, i, tagged) == [src |-> p, idx |-> i, page |-> IF tagged THEN p ELSE NoPage]

\* the remote sources considered: every page holds the same number 0..MaxDocs of
\* documents, and the source either puts the page number into each document
\* or does not (an empty answer also stands for an answer without the fixed
\* path, line 91)
Remotes(n) ==
    { [p \in 1..n |-> [i \in 1..cnt |-> Doc(p, i, tagged)]] :
        cnt \in 0..MaxDocs, tagged \in BOOLEAN }

\* ------------------------------------------------------------- Progress Store
AbsentFile  == [kind |-> "absent",  docs |-> <<>>]
CorruptFile == [kind |-> "corrupt", docs |-> <<>>]

\* JSON.stringify(data, null, 2) written to the file (line 47)
Stringify(docs) == [kind |-> "json", docs |-> docs]

\* a load that swallows the parse error and goes on with what it has
ParseNeverThrows(f) == FALSE

\* JSON.parse of the file content (line 40); throws on malformed content
ParseThrows(f) == f.kind = "corrupt"
Parse(f) == f.docs

\* new Set(allDocs.map(doc => doc.page)) (line 136)
PageSet(docs) == { docs[i].page : i \in 1..Len(docs) }

\* ---------------------------------------------------------------- fetchPage
FailureKinds == {"network", "timeout", "http", "decode"}

QueuedTask == [st |-> "queued", retryCount |-> 0, attempts |-> 0,
               delays |-> <<>>, docs |-> <<>>, exhausted |-> FALSE]

\* the guard of line 93
CanRetry(retryCount) == retryCount < Retries

\* a backoff that doubles: 1000, 2000, 4000
BackoffDouble(retryCount) == BaseDelay * 2 ^ retryCount

\* the delay of line 95
BackoffDelay(retryCount) == BaseDelay * (retryCount + 1)

\* fetchPage(page, retryCount) entering its try block (lines 51-82)
StartAttempt(t, retryCount) ==
    [t EXCEPT !.st = "attempt", !.retryCount = retryCount,
              !.attempts = t.attempts + 1]

\* line 91: the attempt succeeded, the documents at the fixed path or []
ReturnDocs(t, docs) == [t EXCEPT !.st = "returned", !.docs = docs]

\* a catch block that throws the error again once the retries are used up
CatchRethrow(t) ==
    IF CanRetry(t.retryCount)
    THEN [t EXCEPT !.st = "sleep",
                   !.delays = Append(t.delays, BackoffDelay(t.retryCount))]
    ELSE [t EXCEPT !.st = "raised"]

\* the catch block, lines 92-100
Catch(t) ==
    IF CanRetry(t.retryCount)
    THEN [t EXCEPT !.st = "sleep",
                   !.delays = Append(t.delays, BackoffDelay(t.retryCount))]
    ELSE [t EXCEPT !.st = "returned", !.docs = <<>>, !.exhausted = TRUE]

\* -------------------------------------------------------------------- limit
Running(f)  == { p \in DOMAIN f : f[p].st \in {"attempt", "sleep"} }
Queued(f)   == { p \in DOMAIN f : f[p].st = "queued" }
ActiveCount(f) == Cardinality(Running(f))

\* a limiter that starts every submitted task at once
AdmittedAll(f, concurrency) == Queued(f)

\* p-limit with concurrency CONFIG.batchSize (line 34): queued tasks start in
\* the order they were submitted while fewer than `concurrency` are running
Admitted(f, concurrency) ==
    { p \in Queued(f) :
        ActiveCount(f) + Cardinality({ q \in Queued(f) : q < p }) < concurrency }

LimitRun(f, concurrency) ==
    [p \in DOMAIN f |->
        IF p \in Admitted(f, concurrency) THEN StartAttempt(f[p], 0) ELSE f[p]]

\* ------------------------------------------------------------------- scrape
\* a window that reaches one page into the next one
EndPageOver(pg) == Min(pg + batchSize, totalPages)

\* line 142
EndPage(pg) == Min(pg + batchSize - 1, totalPages)

\* a window that is worked on whole, whatever is processed already
PagesToProcessAll(pg) == pg..EndPage(pg)

\* lines 145-150
PagesToProcess(pg) == { p \in pg..EndPage(pg) : p \notin processedPages }

SetMin(S) == CHOOSE x \in S : \A y \in S : x <= y
SetMax(S) == CHOOSE x \in S : \A y \in S : y <= x

\* a range that starts over from the first page
BatchPagesFromOne(startPage, endPage) == 1..endPage

\* line 105: the pages processBatch works on
BatchPages(startPage, endPage) == startPage..endPage

\* lines 107-115: every page is submitted to the limiter
Submit(pages) == LimitRun([p \in pages |-> QueuedTask], batchSize)

NoTasks == [p \in {} |-> QueuedTask]

\* history record of one processBatch call: the window from..to of scrape, its
\* un-processed pages, the pages handed to fetchPage, those that exhausted their
\* retries, those that returned no document, and whether the save succeeded
LogEntry(from, to, todo, pages) ==
    [from |-> from, to |-> to, todo |-> todo, handed |-> pages,
     failed |-> {}, empty |-> {}, saved |-> FALSE]

LogResults(log, f) ==
    [log EXCEPT ![Len(log)] =
        [@ EXCEPT !.failed = { p \in DOMAIN f : f[p].exhausted },
                  !.empty  = { p \in DOMAIN f : f[p].docs = <<>> }]]

LogSaved(log) == [log EXCEPT ![Len(log)] = [@ EXCEPT !.saved = TRUE]]

SavedEmpty(log) ==
    UNION { log[i].empty : i \in { j \in 1..Len(log) : log[j].saved } }

NoPrev == [kind |-> "none", page |-> 0, len |-> 0]

Init ==
    /\ totalPages \in 1..MaxTotalPages
    /\ batchSize \in 1..MaxBatchSize
    /\ remote \in Remotes(totalPages)
    /\ file = AbsentFile
    /\ run = 1
    /\ pc = "loading"
    /\ allDocs = <<>>
    /\ processedPages = {}
    /\ page = 1
    /\ fetch = NoTasks
    /\ slept = 0
    /\ exitCode = -1
    /\ fetchLog = <<>>
    /\ emptied = {}
    /\ prev = NoPrev

\* lines 135-136 with loadProgress, lines 37-43
Load ==
    /\ pc = "loading"
    /\ ~ParseThrows(file)
    /\ allDocs' = (IF file.kind = "absent" THEN <<>> ELSE Parse(file))
    /\ processedPages' = PageSet(allDocs')
    /\ page' = 1
    /\ pc' = "window"
    /\ UNCHANGED <<config, file, run, fetch, slept, exitCode, fetchLog, emptied, prev>>

\* JSON.parse throws in loadProgress; the catch of lines 172-175
LoadFail ==
    /\ pc = "loading"
    /\ ParseThrows(file)
    /\ pc' = "fatal"
    /\ exitCode' = 1
    /\ UNCHANGED <<config, file, run, allDocs, processedPages, page, fetch, slept,
                   fetchLog, emptied, prev>>

\* lines 152-155: nothing to process in this window, `continue`
SkipBatch ==
    /\ pc = "window"
    /\ page <= totalPages
    /\ PagesToProcess(page) = {}
    /\ page' = page + batchSize
    /\ UNCHANGED <<config, file, run, pc, allDocs, processedPages, fetch, slept,
                   exitCode, fetchLog, emptied, prev>>

\* lines 157-163 and 105-115: processBatch(first, last, allDocs) submits its pages
Dispatch ==
    /\ pc = "window"
    /\ page <= totalPages
    /\ PagesToProcess(page) # {}
    /\ LET todo  == PagesToProcess(page)
           pages == BatchPages(SetMin(todo), SetMax(todo))
       IN /\ fetch' = Submit(pages)
          /\ fetchLog' = Append(fetchLog, LogEntry(page, EndPage(page), todo, pages))
    /\ pc' = "fetching"
    /\ UNCHANGED <<config, file, run, allDocs, processedPages, page, slept, exitCode,
                   emptied, prev>>

\* an attempt of fetchPage(p) gets its documents (lines 73-91); the limiter
\* then starts the next queued task
FetchSucceed(p) ==
    /\ pc = "fetching"
    /\ p \in DOMAIN fetch
    /\ fetch[p].st = "attempt"
    /\ fetch' = LimitRun([fetch EXCEPT ![p] = ReturnDocs(fetch[p], remote[p])], batchSize)
    /\ UNCHANGED <<config, file, run, pc, allDocs, processedPages, page, slept,
                   exitCode, fetchLog, emptied, prev>>

\* an attempt of fetchPage(p) throws inside the try block: network error,
\* timeout, status not ok, body not JSON (lines 66-90), caught at line 92
FetchFail(p) ==
    /\ pc = "fetching"
    /\ p \in DOMAIN fetch
    /\ fetch[p].st = "attempt"
    /\ \E kind \in FailureKinds :
          fetch' = LimitRun([fetch EXCEPT ![p] = Catch(fetch[p])], batchSize)
    /\ UNCHANGED <<config, file, run, pc, allDocs, processedPages, page, slept,
                   exitCode, fetchLog, emptied, prev>>

\* the backoff sleep of line 95 ends: fetchPage(page, retryCount + 1), line 96
BackoffWake(p) ==
    /\ pc = "fetching"
    /\ p \in DOMAIN fetch
    /\ fetch[p].st = "sleep"
    /\ fetch' = [fetch EXCEPT ![p] = StartAttempt(fetch[p], fetch[p].retryCount + 1)]
    /\ UNCHANGED <<config, file, run, pc, allDocs, processedPages, page, slept,
                   exitCode, fetchLog, emptied, prev>>

AllReturned(f) == \A p \in DOMAIN f : f[p].st = "returned"

\* a merge that keeps nothing of a window in which a page gave up
MergedNoneOnFailure(docs, f) ==
    IF \E p \in DOMAIN f : f[p].exhausted THEN docs
    ELSE docs \o Flatten([p \in DOMAIN f |-> f[p].docs], SetMin(DOMAIN f), SetMax(DOMAIN f))

\* a merge that keeps only the results of the current call
MergedOnlyNew(docs, f) ==
    Flatten([p \in DOMAIN f |-> f[p].docs], SetMin(DOMAIN f), SetMax(DOMAIN f))

RECURSIVE FlattenDown(_, _, _)
\* results of pages lo..hi concatenated in descending page order
FlattenDown(res, lo, hi) ==
    IF lo > hi THEN <<>> ELSE res[hi] \o FlattenDown(res, lo, hi - 1)

\* a merge that appends the results of the highest page first
MergedDescending(docs, f) ==
    docs \o FlattenDown([p \in DOMAIN f |-> f[p].docs], SetMin(DOMAIN f), SetMax(DOMAIN f))

\* the documents processBatch appends, lines 118-120
Merged(docs, f) ==
    docs \o Flatten([p \in DOMAIN f |-> f[p].docs], SetMin(DOMAIN f), SetMax(DOMAIN f))

\* Promise.all resolved (line 107): merge, then saveProgress is started
Merge ==
    /\ pc = "fetching"
    /\ AllReturned(fetch)
    /\ allDocs' = Merged(allDocs, fetch)
    /\ fetchLog' = LogResults(fetchLog, fetch)
    /\ fetch' = NoTasks
    /\ pc' = "saving"
    /\ UNCHANGED <<config, file, run, processedPages, page, slept, exitCode,
                   emptied, prev>>

\* writeFile succeeded (line 47); processBatch returns, then lines 166-168
\* and the loop increment
SaveOk ==
    /\ pc = "saving"
    /\ file' = Stringify(allDocs)
    /\ fetchLog' = LogSaved(fetchLog)
    /\ IF page + batchSize <= totalPages
       THEN pc' = "delay" /\ page' = page
       ELSE pc' = "window" /\ page' = page + batchSize
    /\ UNCHANGED <<config, run, allDocs, processedPages, fetch, slept, exitCode,
                   emptied, prev>>

\* a save whose error is swallowed: the loop goes on with the next window
SaveFailIgnored ==
    /\ pc = "saving"
    /\ file' \in {file, CorruptFile}
    /\ pc' = "window"
    /\ page' = page + batchSize
    /\ UNCHANGED <<config, run, allDocs, processedPages, fetch, slept, exitCode,
                   fetchLog, emptied, prev>>

\* writeFile rejects (line 47): the error reaches the catch of lines 172-175.
\* The file is left as it was, or truncated by the failed write.
SaveFail ==
    /\ pc = "saving"
    /\ file' \in {file, CorruptFile}
    /\ pc' = "fatal"
    /\ exitCode' = 1
    /\ UNCHANGED <<config, run, allDocs, processedPages, page, fetch, slept,
                   fetchLog, emptied, prev>>

\* the sleep of line 167 ends; loop increment of line 141
DelayDone ==
    /\ pc = "delay"
    /\ slept' = BatchDelay
    /\ page' = page + batchSize
    /\ pc' = "window"
    /\ UNCHANGED <<config, file, run, allDocs, processedPages, fetch, exitCode,
                   fetchLog, emptied, prev>>

\* a loop that ends one window early
FinishEarly ==
    /\ pc = "window"
    /\ page + batchSize > totalPages
    /\ pc' = "done"
    /\ exitCode' = 0
    /\ UNCHANGED <<config, file, run, allDocs, processedPages, page, fetch, slept,
                   fetchLog, emptied, prev>>

\* the loop of line 141 ends, line 171; the process exits with status 0
Finish ==
    /\ pc = "window"
    /\ page > totalPages
    /\ pc' = "done"
    /\ exitCode' = 0
    /\ UNCHANGED <<config, file, run, allDocs, processedPages, page, fetch, slept,
                   fetchLog, emptied, prev>>

\* first page of the window that follows the last saved one
NextWindow == IF pc = "delay" THEN page + batchSize ELSE page

\* how a process that stops in the current state has ended: "done" after
\* line 171, "between" when a window of this run is saved and a later window
\* remains that has not started, "other" elsewhere
EndKind ==
    IF pc = "done" THEN "done"
    ELSE IF pc \in {"delay", "window"} /\ fetchLog # <<>> /\ NextWindow <= totalPages
         THEN "between"
    ELSE "other"

\* The process ends (by itself, or killed at any point) and scrape() is
\* started again (line 179) on the same output file. A process killed while
\* writeFile is writing may leave a truncated file.
Restart ==
    /\ run < MaxRuns
    /\ run' = run + 1
    /\ file' \in (IF pc = "saving" THEN {file, CorruptFile} ELSE {file})
    /\ prev' = [kind |-> EndKind, page |-> NextWindow, len |-> Len(file.docs)]
    /\ pc' = "loading"
    /\ allDocs' = <<>>
    /\ processedPages' = {}
    /\ page' = 1
    /\ fetch' = NoTasks
    /\ slept' = 0
    /\ exitCode' = -1
    /\ fetchLog' = <<>>
    /\ emptied' = emptied \cup SavedEmpty(fetchLog)
    /\ UNCHANGED config

Next ==
    \/ Load
    \/ LoadFail
    \/ SkipBatch
    \/ Dispatch
    \/ \E p \in 1..MaxTotalPages : FetchSucceed(p)
    \/ \E p \in 1..MaxTotalPages : FetchFail(p)
    \/ \E p \in 1..MaxTotalPages : BackoffWake(p)
    \/ Merge
    \/ SaveOk
    \/ SaveFail
    \/ DelayDone
    \/ Finish
    \/ Restart

Spec == Init /\ [][Next]_vars

\* the steps the running process takes by itself: every pending promise of
\* scrape() settles (each request answers or times out after CONFIG.timeout,
\* line 19; each setTimeout of lines 95 and 167 fires; every file operation
\* returns or throws)
RunStep ==
    \/ Load
    \/ LoadFail
    \/ SkipBatch
    \/ Dispatch
    \/ \E p \in 1..MaxTotalPages : FetchSucceed(p)
    \/ \E p \in 1..MaxTotalPages : FetchFail(p)
    \/ \E p \in 1..MaxTotalPages : BackoffWake(p)
    \/ Merge
    \/ SaveOk
    \/ SaveFail
    \/ DelayDone
    \/ Finish

\* the event loop keeps running the process while it has a step to take; the
\* process may still be killed and started again
FairSpec == Spec /\ WF_vars(RunStep)

\* ------------------------------------------------- processBatch on its own
\* processBatch(startPage, endPage, []) called with any range of pages and any
\* CONFIG.batchSize; the calls scrape makes are among them. The range may hold
\* more pages than the limiter admits at once.
InitBatch ==
    /\ totalPages \in 1..MaxTotalPages
    /\ batchSize \in 1..MaxBatchSize
    /\ remote \in Remotes(totalPages)
    /\ file = AbsentFile
    /\ run = 1
    /\ pc = "fetching"
    /\ allDocs = <<>>
    /\ processedPages = {}
    /\ \E startPage \in 1..totalPages : \E endPage \in startPage..totalPages :
          /\ page = startPage
          /\ fetch = Submit(BatchPages(startPage, endPage))
          /\ fetchLog = << LogEntry(startPage, endPage, startPage..endPage,
                                    BatchPages(startPage, endPage)) >>
    /\ slept = 0
    /\ exitCode = -1
    /\ emptied = {}
    /\ prev = NoPrev

NextBatch ==
    \/ \E p \in 1..MaxTotalPages : FetchSucceed(p)
    \/ \E p \in 1..MaxTotalPages : FetchFail(p)
    \/ \E p \in 1..MaxTotalPages : BackoffWake(p)
    \/ Merge
    \/ SaveOk
    \/ SaveFail

SpecBatch == InitBatch /\ [][NextBatch]_vars

\* ===================================================================== claims
Log == { fetchLog[i] : i \in 1..Len(fetchLog) }

\* the pages of the documents, in stored order, by their `page` property
PageNumbers(docs) == [i \in 1..Len(docs) |-> docs[i].page]

\* the pages whose fetch returned the documents
SourcePages(docs) == { docs[i].src : i \in 1..Len(docs) }

NonDecreasing(s) == \A i \in 1..Len(s) : \A j \in i..Len(s) : s[i] <= s[j]

\* the run has loaded its state and derived processedPages
Loaded == pc \notin {"loading", "fatal"}

\* C1: in every run, the pages handed to fetchPage for a window are exactly the
\* window's pages minus the done-set derived at startup; no page of the done-set
\* is fetched again.
C1_FetchesExactlyUndone ==
    \A e \in Log : e.handed = (e.from..e.to) \ processedPages

\* C2: a run started after a run that reached DONE, on the same file and the same
\* remote data, issues no fetch and persists a collection no larger than that of
\* the first run.
C2_IdempotentResume ==
    (run > 1 /\ prev.kind = "done") =>
        /\ fetchLog = <<>>
        /\ Len(file.docs) <= prev.len

\* C3: a run from empty state that reaches DONE without any page exhausting its
\* retries leaves a collection whose derived done-set is 1..totalPages; with one
\* record per page it holds totalPages records.
C3_GapFreeCoverage ==
    (run = 1 /\ pc = "done" /\ \A e \in Log : e.failed = {}) =>
        /\ PageSet(file.docs) = 1..totalPages
        /\ (\A p \in 1..totalPages : Len(remote[p]) = 1) => Len(file.docs) = totalPages

\* C4: the number of fetches the limiter has admitted and that have not returned
\* (those sleeping in a backoff included) never exceeds the configured cap,
\* CONFIG.batchSize, whatever the number of pages submitted.
C4_BoundedConcurrency == ActiveCount(fetch) <= batchSize

\* the limiter is full, a task waits in its queue and a running one sleeps
C4_Witness ==
    /\ ActiveCount(fetch) = batchSize
    /\ Queued(fetch) # {}
    /\ \E p \in DOMAIN fetch : fetch[p].st = "sleep"
    /\ \E p \in DOMAIN fetch : fetch[p].st = "returned"

\* C5: when a process ends after the save of window k and before window k+1
\* starts, the next run fetches no page of window k or of an earlier window, and
\* what it fetches first are exactly the un-done pages of the first window it works on.
C5_PartialCrashRecovery ==
    (run > 1 /\ prev.kind = "between") =>
        /\ \A e \in Log : \A p \in e.handed : p >= prev.page
        /\ fetchLog # <<>> => fetchLog[1].handed = fetchLog[1].todo

\* C6: after every save, in a fresh or a resumed run, the page numbers of the
\* persisted records are non-decreasing in stored order.
C6_PersistedPagesSorted ==
    file.kind = "json" => NonDecreasing(PageNumbers(file.docs))

\* C7: every accumulated or persisted record carries in `page` the page of the
\* fetch that returned it, so the derived done-set is the set of pages that
\* contributed a record.
C7_PageFieldIsFetchPage ==
    /\ \A i \in 1..Len(allDocs) : allDocs[i].page = allDocs[i].src
    /\ \A i \in 1..Len(file.docs) : file.docs[i].page = file.docs[i].src
    /\ Loaded => PageSet(allDocs) = SourcePages(allDocs)

\* C8: a page whose fetch returned no record in a window that was saved is in the
\* done-set derived at the next startup and is not fetched in a later run.
C8_EmptyPagesAreDone ==
    (run > 1 /\ Loaded) =>
        /\ emptied \subseteq processedPages
        /\ \A e \in Log : e.handed \cap emptied = {}

\* C9: fetchPage never raises to its caller: whatever the outcomes of its
\* attempts, it returns the documents of a successful attempt, and the empty
\* sequence when every permitted attempt failed.
C9_FetchPageNeverRaises ==
    \A p \in DOMAIN fetch :
        /\ fetch[p].st \in {"queued", "attempt", "sleep", "returned"}
        /\ fetch[p].exhausted => fetch[p].st = "returned" /\ fetch[p].docs = <<>>
        /\ (fetch[p].st = "returned" /\ ~fetch[p].exhausted) => fetch[p].docs = remote[p]

\* a call whose attempts all failed has returned the empty sequence, next to a
\* call that returned documents
C9_Witness ==
    /\ \E p \in DOMAIN fetch :
          fetch[p].st = "returned" /\ fetch[p].exhausted /\ fetch[p].attempts = Retries + 1
    /\ \E p \in DOMAIN fetch :
          fetch[p].st = "returned" /\ fetch[p].docs # <<>>

\* what C10 says of one fetchPage call in one state
RetryScheduleOf(t) ==
    /\ t.attempts <= 3 + 1
    /\ Len(t.delays) <= 3
    /\ \A k \in 1..Len(t.delays) : t.delays[k] = k * 1000
    /\ t.st = "attempt" => t.attempts = Len(t.delays) + 1
    /\ t.st = "sleep" => t.attempts = Len(t.delays)
    /\ t.exhausted => t.attempts = 3 + 1

MergedLog ==
    { fetchLog[i] : i \in { j \in 1..Len(fetchLog) : j < Len(fetchLog) \/ pc # "fetching" } }

\* the documents of page p in docs, in stored order
DocsOfPage(docs, p) == SelectSeq(docs, LAMBDA d : d.src = p)

\* C11: fetch failures never end the run in FATAL. When a page of a window
\* exhausts its retries, its sibling pages are fetched and their records merged
\* and saved, and the run goes on; FATAL is entered only from a failed load or a
\* failed save.
C11_PageFailuresNeverFatal ==
    /\ [](\A e \in MergedLog : \A p \in e.handed \ e.failed :
            Len(DocsOfPage(allDocs, p)) >= Len(remote[p]))
    /\ [](\A e \in Log : e.saved =>
            \A p \in e.handed \ e.failed :
                file.kind = "json" => Len(DocsOfPage(file.docs, p)) >= Len(remote[p]))
    /\ [][pc' = "fatal" /\ pc # "fatal" => pc \in {"loading", "saving"}]_vars
    /\ [][(pc' = "fatal" /\ pc = "loading") => file.kind = "corrupt"]_vars

\* a run that ended DONE although a page of its first window gave up: the
\* sibling's records are saved and a later window was worked on
C11_Witness ==
    /\ pc = "done"
    /\ exitCode = 0
    /\ Len(fetchLog) >= 2
    /\ fetchLog[1].failed # {}
    /\ \E p \in fetchLog[1].handed \ fetchLog[1].failed :
          Len(DocsOfPage(file.docs, p)) >= 1

\* C12: the merged collection of every window that is worked on is persisted
\* before a fetch of a later window starts; the records fetched and not yet
\* persisted belong to one window; a process that stops at any point loses at
\* most that window's work, and the records persisted before remain loadable.
C12_EachWindowDurable ==
    /\ \A i \in 1..(Len(fetchLog) - 1) : fetchLog[i].saved
    /\ pc = "fetching" => allDocs = file.docs
    /\ (Loaded /\ fetchLog # <<>>) =>
          \A k \in (Len(file.docs) + 1)..Len(allDocs) :
              allDocs[k].src \in fetchLog[Len(fetchLog)].handed
    /\ (run > 1 /\ prev.len > 0) =>
          file.kind = "json" /\ Len(file.docs) >= prev.len

\* C13: load gives the empty collection when the state file does not exist; when
\* the file holds malformed data the run ends FATAL with a non-zero exit status,
\* without a fetch and without writing the file.
C13_LoadAbsentOrCorrupt ==
    /\ [][(pc = "loading" /\ file.kind = "absent" /\ pc' # "loading")
            => (pc' = "window" /\ allDocs' = <<>> /\ processedPages' = {} /\ file' = file)]_vars
    /\ [][(pc = "loading" /\ file.kind = "corrupt" /\ pc' # "loading")
            => (pc' = "fatal" /\ exitCode' = 1 /\ file' = file /\ fetchLog' = <<>>
                /\ fetch' = NoTasks)]_vars
    /\ [][(pc = "fatal" /\ fetchLog = <<>> /\ run' = run)
            => (file' = file /\ fetchLog' = <<>> /\ pc' = "fatal")]_vars

\* a run that found a corrupt file has ended FATAL before any fetch
C13_Witness ==
    /\ run > 1
    /\ pc = "fatal"
    /\ exitCode = 1
    /\ file.kind = "corrupt"
    /\ fetchLog = <<>>
    /\ prev.len > 0

\* C14: when the save of a window fails, the run goes from RUNNING to FATAL and
\* ends with a non-zero exit status, and no page of a later window is fetched.
C14_SaveFailureIsFatal ==
    /\ []((fetchLog # <<>> /\ pc \notin {"fetching", "saving"}
             /\ ~fetchLog[Len(fetchLog)].saved)
            => (pc = "fatal" /\ exitCode = 1))
    /\ [](\A i \in 1..(Len(fetchLog) - 1) : fetchLog[i].saved)
    /\ [][(pc = "fatal" /\ run' = run)
            => (pc' = "fatal" /\ exitCode' = exitCode /\ fetchLog' = fetchLog
                /\ fetch' = fetch)]_vars

\* the save of a window failed while a later window was still to come
C14_Witness ==
    /\ pc = "fatal"
    /\ exitCode = 1
    /\ Len(fetchLog) >= 2
    /\ ~fetchLog[Len(fetchLog)].saved
    /\ fetchLog[Len(fetchLog)].to < totalPages

\* the window that starts at the current page has all its pages in the done-set
WindowAllDone ==
    /\ pc = "window"
    /\ page <= totalPages
    /\ \A p \in page..(page + batchSize - 1) : p <= totalPages => p \in processedPages

\* C15: a window whose pages are all in the done-set is passed over without a
\* fetch and without a save, the accumulated collection and the state file stay
\* as they are; when every page of 1..totalPages is in the done-set the run
\* reaches DONE without a fetch.
C15_DoneWindowsSkipped ==
    /\ [][(WindowAllDone /\ run' = run)
            => (pc' = "window" /\ page' = page + batchSize /\ fetchLog' = fetchLog
                /\ fetch' = fetch /\ allDocs' = allDocs /\ file' = file)]_vars
    /\ []((Loaded /\ \A p \in 1..totalPages : p \in processedPages)
            => (fetchLog = <<>> /\ fetch = NoTasks /\ allDocs = file.docs))

\* a resumed run over several windows, all done, has reached DONE without a fetch
C15_Witness ==
    /\ run > 1
    /\ pc = "done"
    /\ exitCode = 0
    /\ totalPages > batchSize
    /\ \A p \in 1..totalPages : p \in processedPages
    /\ fetchLog = <<>>

\* first pages of the windows of 1..totalPages
WindowStarts == { w \in 1..totalPages : (w - 1) % batchSize = 0 }

\* window w was passed over: all its pages are in the done-set
WindowSkipped(w) == \A p \in w..(w + batchSize - 1) : p <= totalPages => p \in processedPages

\* window w was processed and its save returned
WindowSaved(w) == \E e \in Log : e.from = w /\ e.saved

Terminal == pc \in {"done", "fatal"}

\* C16: every run that is not killed reaches DONE or FATAL, and stays there;
\* DONE comes with exit status 0 and only after a successful load with every
\* window skipped or processed and saved; FATAL comes with status 1 and only
\* from a failed load or a failed save; no status is set before the end.
C16_RunTerminates ==
    /\ \A r \in 1..MaxRuns : (run = r) ~> (run > r \/ Terminal)
    /\ [](pc = "done" =>
            /\ exitCode = 0
            /\ \A w \in WindowStarts : WindowSkipped(w) \/ WindowSaved(w)
            /\ \A e \in Log : e.saved)
    /\ [](pc = "fatal" =>
            /\ exitCode = 1
            /\ \/ fetchLog = <<>> /\ file.kind = "corrupt"
               \/ fetchLog # <<>> /\ ~fetchLog[Len(fetchLog)].saved)
    /\ [](~Terminal => exitCode = -1)
    /\ [][(Terminal /\ run' = run) => (pc' = pc /\ exitCode' = exitCode)]_vars
    /\ [][(pc' = "done" /\ pc # "done") => (pc = "window" /\ page > totalPages)]_vars

\* a run that skipped one window and processed and saved another is DONE
C16_Witness ==
    /\ pc = "done"
    /\ exitCode = 0
    /\ \E w \in WindowStarts : WindowSkipped(w) /\ ~WindowSaved(w)
    /\ \E w \in WindowStarts : WindowSaved(w) /\ ~WindowSkipped(w)

\* C17: the windows of a run are [1 + k*batchSize, min((k+1)*batchSize,
\* totalPages)], k = 0, 1, ...: the loop variable only ever holds a window's
\* first page and only moves on by batchSize, every window worked on starts at
\* such a page and ends batchSize - 1 later or at totalPages, windows are
\* worked on in strictly increasing order, every window before the current one
\* was visited (skipped or worked on), and the loop ends only past totalPages.
C17_WindowPartition ==
    /\ [](Loaded => (page - 1) % batchSize = 0 /\ page >= 1 /\ page <= totalPages + batchSize)
    /\ [](\A e \in Log :
            /\ e.from \in WindowStarts
            /\ e.to = Min(e.from + batchSize - 1, totalPages)
            /\ e.to - e.from + 1 = batchSize \/ e.to = totalPages)
    /\ [](\A i, j \in 1..Len(fetchLog) : i < j => fetchLog[i].to < fetchLog[j].from)
    /\ [](Loaded => \A w \in WindowStarts :
            w < page => (WindowSkipped(w) \/ \E e \in Log : e.from = w))
    /\ [](Loaded => \A e \in Log : e.from <= page)
    /\ [](pc \in {"fetching", "saving", "delay"} => fetchLog[Len(fetchLog)].from = page)
    /\ [](pc = "done" => page > totalPages)
    /\ [][run' = run => page' \in {page, page + batchSize}]_vars

\* windows [1,2] and [3,3] of totalPages = 3, batchSize = 2 were worked on
C17_Witness ==
    /\ pc = "done"
    /\ totalPages = 3
    /\ batchSize = 2
    /\ Len(fetchLog) = 2
    /\ fetchLog[1].from = 1 /\ fetchLog[1].to = 2
    /\ fetchLog[2].from = 3 /\ fetchLog[2].to = 3

\* what the fetch of page p of call e gave back: the documents of the remote
\* source in their order, or nothing when the page used up its retries
ResultOf(e, p) == IF p \in e.failed THEN <<>> ELSE remote[p]

\* C18: whatever the order in which the fetches of one processBatch call
\* complete, the collection after the merge holds the results of the call's
\* pages in ascending page order and nothing else, each page's documents all
\* there, once, in the order the source returned them: the merged collection is
\* a function of the pages' results alone.
C18_MergeInPageOrder ==
    pc # "fetching" =>
        LET e == fetchLog[Len(fetchLog)] IN
        /\ NonDecreasing([i \in 1..Len(allDocs) |-> allDocs[i].src])
        /\ \A p \in e.handed : DocsOfPage(allDocs, p) = ResultOf(e, p)
        /\ SourcePages(allDocs) \subseteq e.handed

\* a merge of three pages, the middle one given up, the others with two
\* documents each
C18_Witness ==
    /\ pc = "saving"
    /\ fetchLog[1].handed = 1..3
    /\ fetchLog[1].failed = {2}
    /\ batchSize = 2
    /\ Len(allDocs) = 4
    /\ allDocs[2].src = 1 /\ allDocs[2].idx = 2
    /\ allDocs[3].src = 3 /\ allDocs[3].idx = 1

\* s is an initial part of t
IsPrefix(s, t) == Len(s) <= Len(t) /\ \A i \in 1..Len(s) : s[i] = t[i]

\* C19: within a run the accumulated collection only grows at its end, and
\* only in the merge step, which runs when every fetch of the call has
\* returned; what a save writes is the accumulated collection, and it starts
\* with what was loaded and with what every earlier save of the run wrote.
C19_AppendOnly ==
    /\ [][(run' = run /\ pc # "loading") => IsPrefix(allDocs, allDocs')]_vars
    /\ [][(run' = run /\ pc # "loading" /\ allDocs' # allDocs)
            => (/\ pc = "fetching"
                /\ pc' = "saving"
                /\ \A p \in DOMAIN fetch : fetch[p].st = "returned")]_vars
    /\ [][(run' = run /\ file' # file /\ file'.kind = "json")
            => (/\ pc = "saving"
                /\ file'.docs = allDocs
                /\ IsPrefix(file.docs, file'.docs))]_vars
    /\ []((Loaded /\ file.kind # "corrupt") => IsPrefix(file.docs, allDocs))

\* a run that loaded documents and then saved two windows on top of them
C19_Witness ==
    /\ run > 1
    /\ prev.len > 0
    /\ Len(fetchLog) >= 2
    /\ \A e \in Log : e.saved
    /\ file.kind = "json"
    /\ Len(file.docs) >= prev.len + 2
    /\ file.docs = allDocs

\* C20: within a run no page is handed to fetchPage by two processBatch
\* calls, a call hands each of its pages once (one task per page, retries
\* happen inside the task), and the pages a call hands lie in the window the
\* loop is at, although processedPages is never updated after startup.
C20_PageHandedAtMostOnce ==
    /\ [](\A i, j \in 1..Len(fetchLog) :
            i # j => fetchLog[i].handed \cap fetchLog[j].handed = {})
    /\ [](\A e \in Log :
            /\ e.handed # {}
            /\ e.handed \subseteq e.from..e.to
            /\ e.handed \subseteq 1..totalPages)
    /\ [](pc = "fetching" =>
            /\ DOMAIN fetch = fetchLog[Len(fetchLog)].handed
            /\ \A p \in DOMAIN fetch :
                 p \in page..(page + batchSize - 1) /\ fetch[p].attempts <= Retries + 1)
    /\ [](pc # "fetching" => fetch = NoTasks)
    /\ [][(run' = run /\ Loaded) => processedPages' = processedPages]_vars
    /\ [][(run' = run /\ fetch' # fetch /\ pc # "fetching")
            => (Len(fetchLog') = Len(fetchLog) + 1 /\ pc = "window" /\ pc' = "fetching")]_vars

\* a finished run that fetched in two windows with a done-set that stayed empty
C20_Witness ==
    /\ pc = "done"
    /\ processedPages = {}
    /\ Len(fetchLog) >= 2
    /\ UNION { e.handed : e \in Log } = 1..totalPages

====
